---- MODULE Spec2Model ----
(***************************************************************************)
(* Model of "SOLID principle example in python.py".                        *)
(*                                                                         *)
(* The file rebinds the names Bird, Sparrow, Penguin ... section after     *)
(* section, so a class is identified here by its section and its name:     *)
(*   "Ocp.*"   adhering to OCP   (lines 63-81)                             *)
(*   "OcpV.Bird" violating OCP   (lines 86-99)                             *)
(*   "Lsp.*"   adhering to LSP   (lines 107-120)                           *)
(*   "Isp.*"   adhering to ISP   (lines 145-165)                           *)
(*   "Dip.*"   adhering to DIP   (lines 188-209)                           *)
(*   "Bird", "Sparrow", "Penguin"  the final example (lines 255-269)       *)
(* Python text is a sequence of one-character strings, so that formatting  *)
(* and substring search are computed and not assumed.                      *)
(***************************************************************************)
EXTENDS Naturals, Sequences, FiniteSets

VARIABLES pc, section, heap, result, stdout

vars == <<pc, section, heap, result, stdout>>

\* Largest number of objects a client session keeps alive.
MaxObjects == 2

(***************************************************************************)
(* Text literals of the source.                                            *)
(***************************************************************************)
EmptyName == << >>
SparrowName == <<"S","p","a","r","r","o","w">>
PenguinName == <<"P","e","n","g","u","i","n">>
\* Names a client constructs entities with.
Names == {EmptyName, SparrowName, PenguinName}

IsFlying == <<" ","i","s"," ","f","l","y","i","n","g",".">>
IsSinging == <<" ","i","s"," ","s","i","n","g","i","n","g",".">>
CantFly == <<" ","c","a","n","'","t"," ","f","l","y",".">>
IsSwimming == <<" ","i","s"," ","s","w","i","m","m","i","n","g",".">>
IsASparrow == <<" ","i","s"," ","a"," ","s","p","a","r","r","o","w",".">>
IsAPenguin == <<" ","i","s"," ","a"," ","p","e","n","g","u","i","n",".">>
IsAnOstrich == <<" ","i","s"," ","a","n"," ","o","s","t","r","i","c","h",".">>
IsAnUnknownBird == <<" ","i","s"," ","a","n"," ","u","n","k","n","o","w","n"," ","b","i","r","d",".">>
Says == <<" ","s","a","y","s",":"," ">>
And == <<" ","a","n","d"," ">>

\* Words the scenarios look for in a description.
Flying == <<"f","l","y","i","n","g">>
Singing == <<"s","i","n","g","i","n","g">>
Swimming == <<"s","w","i","m","m","i","n","g">>

\* Species strings handed to the conditional Bird; "parrot" stands for any
\* species its describe does not know.
Species == {"sparrow", "penguin", "ostrich", "parrot"}

(***************************************************************************)
(* Text helpers.                                                           *)
(***************************************************************************)
Contains(s, sub) ==
    \E i \in 0..Len(s) : i + Len(sub) <= Len(s) /\ SubSeq(s, i + 1, i + Len(sub)) = sub

\* 1-based position of the first occurrence of sub in s, 0 when absent.
IndexOf(s, sub) ==
    IF Contains(s, sub)
    THEN CHOOSE i \in 1..(Len(s) + 1) :
            /\ i + Len(sub) - 1 <= Len(s)
            /\ SubSeq(s, i, i + Len(sub) - 1) = sub
            /\ \A j \in 1..(i - 1) : SubSeq(s, j, j + Len(sub) - 1) # sub
    ELSE 0

(***************************************************************************)
(* Objects and outcomes.                                                   *)
(***************************************************************************)
Sections == {"Ocp", "Lsp", "Isp", "Dip", "Final"}

\* The name-only bird classes a section of the file defines.  Section "Ocp"
\* ends at line 99, where Sparrow, Penguin and Ostrich are the polymorphic
\* classes and Bird is the conditional one.
BirdClasses(sec) ==
    CASE sec = "Ocp" -> {"Ocp.Sparrow", "Ocp.Penguin", "Ocp.Ostrich"}
      [] sec = "Lsp" -> {"Lsp.Sparrow", "Lsp.Penguin"}
      [] sec = "Isp" -> {"Isp.Sparrow", "Isp.Penguin"}
      [] sec = "Dip" -> {"Dip.Sparrow", "Dip.Penguin"}
      [] sec = "Final" -> {"Bird", "Sparrow", "Penguin"}

AllBirdClasses == UNION {BirdClasses(sec) : sec \in Sections}

\* What a call produced: a returned text, or a raised exception, together with
\* the attribute lookups it made on its argument, in order.
Returned(text, calls) == [exc |-> "None", val |-> text, calls |-> calls]
Raised(e, calls) == [exc |-> e, val |-> << >>, calls |-> calls]

NoResult ==
    [op |-> "none", target |-> 0, arg |-> << >>, exc |-> "None", val |-> << >>,
     calls |-> << >>]

Record(op, target, arg, out) ==
    [op |-> op, target |-> target, arg |-> arg, exc |-> out.exc, val |-> out.val,
     calls |-> out.calls]

(***************************************************************************)
(* Constructors.                                                           *)
(***************************************************************************)
\* Variant of Bird.__init__ that rejects an empty name.
Bird___init___validating(cls, name) ==
    IF name = << >>
    THEN [exc |-> "InvalidEntity",
          obj |-> [cls |-> cls, name |-> name, species |-> "", bird |-> 0]]
    ELSE [exc |-> "None", obj |-> [cls |-> cls, name |-> name, species |-> "", bird |-> 0]]

\* Bird.__init__(self, name): self.name = name.  Every name-only class of the
\* file inherits it.
Bird___init__(cls, name) ==
    [exc |-> "None", obj |-> [cls |-> cls, name |-> name, species |-> "", bird |-> 0]]

\* Violating OCP: Bird.__init__(self, name, species).
OcpV_Bird___init__(name, species) ==
    [exc |-> "None",
     obj |-> [cls |-> "OcpV.Bird", name |-> name, species |-> species, bird |-> 0]]

\* BirdController.__init__(self, bird): self.bird = bird.
BirdController___init__(bird) ==
    [exc |-> "None",
     obj |-> [cls |-> "Dip.BirdController", name |-> << >>, species |-> "", bird |-> bird]]

(***************************************************************************)
(* Method bodies: f-strings over self.name.                                *)
(***************************************************************************)
Ocp_Sparrow_describe(self) == self.name \o IsASparrow
Ocp_Penguin_describe(self) == self.name \o IsAPenguin
Ocp_Ostrich_describe(self) == self.name \o IsAnOstrich

\* Variant of the conditional describe with the article of the ostrich branch
\* copied from the branches above it.
OcpV_Bird_describe_copied_article(self) ==
    IF self.species = "sparrow" THEN self.name \o IsASparrow
    ELSE IF self.species = "penguin" THEN self.name \o IsAPenguin
    ELSE IF self.species = "ostrich"
         THEN self.name \o <<" ","i","s"," ","a"," ","o","s","t","r","i","c","h",".">>
    ELSE self.name \o IsAnUnknownBird

OcpV_Bird_describe(self) ==
    IF self.species = "sparrow" THEN self.name \o IsASparrow
    ELSE IF self.species = "penguin" THEN self.name \o IsAPenguin
    ELSE IF self.species = "ostrich" THEN self.name \o IsAnOstrich
    ELSE self.name \o IsAnUnknownBird

Lsp_Sparrow_move(self) == self.name \o IsFlying
Lsp_Penguin_move(self) == self.name \o IsSwimming
Isp_Sparrow_fly(self) == self.name \o IsFlying
Isp_Penguin_swim(self) == self.name \o IsSwimming
Dip_Sparrow_move(self) == self.name \o IsFlying
Dip_Penguin_move(self) == self.name \o IsSwimming

\* Variant of Sparrow.fly with the name written into the text.
Sparrow_fly_fixed_name(self) == SparrowName \o IsFlying
Sparrow_fly(self) == self.name \o IsFlying

\* Variant of Sparrow.sing whose body was copied from fly.
Sparrow_sing_copied_from_fly(self) == self.name \o IsFlying
Sparrow_sing(self) == self.name \o IsSinging
Penguin_fly(self) == self.name \o CantFly

\* The methods each class defines or inherits (its attribute table).
Methods(cls) ==
    CASE cls \in {"Ocp.Sparrow", "Ocp.Penguin", "Ocp.Ostrich", "OcpV.Bird"} -> {"describe"}
      [] cls \in {"Lsp.Sparrow", "Lsp.Penguin", "Dip.Sparrow", "Dip.Penguin"} -> {"move"}
      [] cls = "Isp.Sparrow" -> {"fly"}
      [] cls = "Isp.Penguin" -> {"swim"}
      [] cls = "Sparrow" -> {"fly", "sing"}
      [] cls = "Penguin" -> {"fly"}
      [] cls = "Dip.BirdController" -> {"make_move"}
      [] OTHER -> {}

\* Instance attributes set by the constructors.
HasName(cls) == cls # "Dip.BirdController"

\* The body that runs for self.m() once the lookup of m succeeded.
Body(self, m) ==
    CASE self.cls = "Ocp.Sparrow" -> Ocp_Sparrow_describe(self)
      [] self.cls = "Ocp.Penguin" -> Ocp_Penguin_describe(self)
      [] self.cls = "Ocp.Ostrich" -> Ocp_Ostrich_describe(self)
      [] self.cls = "OcpV.Bird" -> OcpV_Bird_describe(self)
      [] self.cls = "Lsp.Sparrow" -> Lsp_Sparrow_move(self)
      [] self.cls = "Lsp.Penguin" -> Lsp_Penguin_move(self)
      [] self.cls = "Isp.Sparrow" -> Isp_Sparrow_fly(self)
      [] self.cls = "Isp.Penguin" -> Isp_Penguin_swim(self)
      [] self.cls = "Dip.Sparrow" -> Dip_Sparrow_move(self)
      [] self.cls = "Dip.Penguin" -> Dip_Penguin_move(self)
      [] self.cls = "Sparrow" /\ m = "fly" -> Sparrow_fly(self)
      [] self.cls = "Sparrow" /\ m = "sing" -> Sparrow_sing(self)
      [] self.cls = "Penguin" -> Penguin_fly(self)
      [] OTHER -> << >>

\* obj.m(): the attribute lookup raises AttributeError when the class has no m.
Invoke(self, m) ==
    IF m \in Methods(self.cls)
    THEN Returned(Body(self, m), <<m>>)
    ELSE Raised("AttributeError", <<m>>)

\* BirdController.make_move(self): return self.bird.move()
BirdController_make_move(h, self) == Invoke(h[self.bird], "move")

\* Variant of bird_info that formats the movement before the vocalization.
bird_info_fly_first(bird) ==
    LET sung == Invoke(bird, "sing")
        flown == Invoke(bird, "fly")
    IN  IF ~HasName(bird.cls) THEN Raised("AttributeError", <<"name">>)
        ELSE IF flown.exc # "None" THEN Raised(flown.exc, <<"name", "fly">>)
        ELSE IF sung.exc # "None" THEN Raised(sung.exc, <<"name", "fly", "sing">>)
        ELSE Returned(bird.name \o Says \o flown.val \o And \o sung.val,
                      <<"name", "fly", "sing">>)

\* bird_info(bird): f"{bird.name} says: {bird.sing()} and {bird.fly()}",
\* evaluated left to right; the first failing lookup ends the call.
bird_info(bird) ==
    LET sung == Invoke(bird, "sing")
        flown == Invoke(bird, "fly")
    IN  IF ~HasName(bird.cls) THEN Raised("AttributeError", <<"name">>)
        ELSE IF sung.exc # "None" THEN Raised(sung.exc, <<"name", "sing">>)
        ELSE IF flown.exc # "None" THEN Raised(flown.exc, <<"name", "sing", "fly">>)
        ELSE Returned(bird.name \o Says \o sung.val \o And \o flown.val,
                      <<"name", "sing", "fly">>)

(***************************************************************************)
(* The state machine.                                                      *)
(*   pc = "L276".."L280", "done", "crashed": the module run as a script,   *)
(*        one statement of its usage section per step; an exception no     *)
(*        one catches ends the run.                                        *)
(*   pc = "client": code that uses the definitions of one section of the   *)
(*        file (the names are rebound from section to section), catching   *)
(*        what they raise.                                                 *)
(* heap[1], heap[2] are the globals sparrow and penguin in a script run.   *)
(***************************************************************************)
Init ==
    /\ pc \in {"L276", "client"}
    /\ section \in Sections
    /\ pc = "L276" => section = "Final"
    /\ heap = << >>
    /\ result = NoResult
    /\ stdout = << >>

\* sparrow = Sparrow("Sparrow")
L276 ==
    /\ pc = "L276"
    /\ LET made == Bird___init__("Sparrow", SparrowName)
       IN  /\ heap' = Append(heap, made.obj)
           /\ result' = Record("construct", Len(heap) + 1, SparrowName, Returned(<< >>, << >>))
    /\ pc' = "L277"
    /\ UNCHANGED <<section, stdout>>

\* penguin = Penguin("Penguin")
L277 ==
    /\ pc = "L277"
    /\ LET made == Bird___init__("Penguin", PenguinName)
       IN  /\ heap' = Append(heap, made.obj)
           /\ result' = Record("construct", Len(heap) + 1, PenguinName, Returned(<< >>, << >>))
    /\ pc' = "L279"
    /\ UNCHANGED <<section, stdout>>

\* print(bird_info(b)) at script line `at`, continuing at `next`.
PrintBirdInfo(at, b, next) ==
    /\ pc = at
    /\ LET out == bird_info(heap[b])
       IN  /\ result' = Record("bird_info", b, << >>, out)
           /\ IF out.exc = "None"
              THEN stdout' = Append(stdout, out.val) /\ pc' = next
              ELSE stdout' = stdout /\ pc' = "crashed"
    /\ UNCHANGED <<section, heap>>

\* print(bird_info(sparrow))
L279 == PrintBirdInfo("L279", 1, "L280")

\* print(bird_info(penguin))
L280 == PrintBirdInfo("L280", 2, "done")

\* A client constructs an instance of a name-only class.
NewBird(cls, name) ==
    /\ pc = "client"
    /\ cls \in BirdClasses(section)
    /\ Len(heap) < MaxObjects
    /\ LET made == Bird___init__(cls, name)
       IN  IF made.exc = "None"
           THEN /\ heap' = Append(heap, made.obj)
                /\ result' = Record("construct", Len(heap) + 1, name, Returned(<< >>, << >>))
           ELSE /\ heap' = heap
                /\ result' = Record("construct", 0, name, Raised(made.exc, << >>))
    /\ UNCHANGED <<pc, section, stdout>>

\* A client constructs the conditional Bird(name, species).
NewOcpVBird(name, species) ==
    /\ pc = "client"
    /\ section = "Ocp"
    /\ Len(heap) < MaxObjects
    /\ LET made == OcpV_Bird___init__(name, species)
       IN  /\ heap' = Append(heap, made.obj)
           /\ result' = Record("construct", Len(heap) + 1, name, Returned(<< >>, << >>))
    /\ UNCHANGED <<pc, section, stdout>>

\* A client wraps an existing object in a BirdController.
NewBirdController(b) ==
    /\ pc = "client"
    /\ section = "Dip"
    /\ Len(heap) < MaxObjects
    /\ b \in 1..Len(heap)
    /\ LET made == BirdController___init__(b)
       IN  /\ heap' = Append(heap, made.obj)
           /\ result' = Record("construct", Len(heap) + 1, << >>, Returned(<< >>, << >>))
    /\ UNCHANGED <<pc, section, stdout>>

\* Variant of a capability call whose method clears self.name.
CallMethod_clearing_name(i, m) ==
    /\ pc = "client"
    /\ i \in 1..Len(heap)
    /\ result' = Record(m, i, << >>, Invoke(heap[i], m))
    /\ heap' = [heap EXCEPT ![i].name = EmptyName]
    /\ UNCHANGED <<pc, section, stdout>>

\* A client calls heap[i].m() for one of the capability methods.
CallMethod(i, m) ==
    /\ pc = "client"
    /\ i \in 1..Len(heap)
    /\ result' = Record(m, i, << >>, Invoke(heap[i], m))
    /\ UNCHANGED <<pc, section, heap, stdout>>

\* A client calls controller.make_move().
CallMakeMove(i) ==
    /\ pc = "client"
    /\ i \in 1..Len(heap)
    /\ heap[i].cls = "Dip.BirdController"
    /\ result' = Record("make_move", i, << >>, BirdController_make_move(heap, heap[i]))
    /\ UNCHANGED <<pc, section, heap, stdout>>

\* A client calls bird_info(heap[i]); bird_info belongs to the final example.
CallBirdInfo(i) ==
    /\ pc = "client"
    /\ section = "Final"
    /\ i \in 1..Len(heap)
    /\ result' = Record("bird_info", i, << >>, bird_info(heap[i]))
    /\ UNCHANGED <<pc, section, heap, stdout>>

Capabilities == {"fly", "sing", "move", "swim", "describe"}

Next ==
    \/ L276
    \/ L277
    \/ L279
    \/ L280
    \/ \E cls \in AllBirdClasses, name \in Names : NewBird(cls, name)
    \/ \E name \in Names, species \in Species : NewOcpVBird(name, species)
    \/ \E b \in 1..MaxObjects : NewBirdController(b)
    \/ \E i \in 1..MaxObjects, m \in Capabilities : CallMethod(i, m)
    \/ \E i \in 1..MaxObjects : CallMakeMove(i)
    \/ \E i \in 1..MaxObjects : CallBirdInfo(i)

Spec == Init /\ [][Next]_vars

(***************************************************************************)
(* Properties.                                                             *)
(***************************************************************************)
\* The object the last call was made on (or that it constructed).
Target == heap[result.target]

OnBird == result.target \in 1..Len(heap) /\ Target.cls \in AllBirdClasses

\* Species string of the conditional Bird that corresponds to a subclass.
SpeciesOf(cls) ==
    CASE cls = "Ocp.Sparrow" -> "sparrow"
      [] cls = "Ocp.Penguin" -> "penguin"
      [] cls = "Ocp.Ostrich" -> "ostrich"

\* C1: describing (bird_info) an instance of any variant completes without
\* raising, and looks up no capability the variant does not implement; in
\* particular describing a Penguin (fly but no sing) returns a text.
C1_DescribeSkipsMissingCapabilities ==
    (result.op = "bird_info" /\ OnBird) =>
        /\ result.exc = "None"
        /\ \A k \in 1..Len(result.calls) :
              result.calls[k] \in Methods(Target.cls) \cup {"name"}

C3_NoCapabilitiesIsNotAnError ==
    (result.op = "bird_info" /\ OnBird /\ Methods(Target.cls) \cap {"fly", "sing"} = {}) =>
        (result.exc = "None" /\ result.val # << >>)

\* C4: a capability operation invoked on an instance of a variant that
\* implements it returns a non-empty text that contains the instance's name.
C4_CapabilityTextContainsName ==
    (result.op \in Capabilities /\ OnBird /\ result.op \in Methods(Target.cls)) =>
        /\ result.exc = "None"
        /\ result.val # << >>
        /\ Contains(result.val, Target.name)

C4_Witness ==
    /\ result.op = "fly"
    /\ OnBird
    /\ Target.cls = "Sparrow"
    /\ Target.name = PenguinName
    /\ result.exc = "None"

\* C5 as stated: in the text bird_info returns for an entity supporting both,
\* the text of fly appears earlier than the text of sing.
C5_MovementBeforeVocalization ==
    (result.op = "bird_info" /\ OnBird /\ result.exc = "None") =>
        IndexOf(result.val, Invoke(Target, "fly").val)
            < IndexOf(result.val, Invoke(Target, "sing").val)

\* C5 as amended: the order is fixed with the vocalization first: the text of
\* sing appears in the result, and earlier than the text of fly.
C5_VocalizationBeforeMovement ==
    (result.op = "bird_info" /\ OnBird /\ result.exc = "None") =>
        /\ IndexOf(result.val, Invoke(Target, "sing").val) > 0
        /\ IndexOf(result.val, Invoke(Target, "sing").val)
             < IndexOf(result.val, Invoke(Target, "fly").val)

C5_Witness ==
    /\ result.op = "bird_info"
    /\ OnBird
    /\ {"fly", "sing"} \subseteq Methods(Target.cls)
    /\ result.exc = "None"
    /\ Target.name = SparrowName

\* C6: describing the Penguin named "Penguin" returns a text that contains
\* "swimming" and does not contain "singing".
C6_PenguinSwimsAndDoesNotSing ==
    (result.op = "bird_info" /\ OnBird /\ Target.cls = "Penguin"
        /\ Target.name = PenguinName) =>
        /\ result.exc = "None"
        /\ Contains(result.val, Swimming)
        /\ ~Contains(result.val, Singing)

\* C7: describing the Sparrow named "Sparrow" returns one text that contains
\* both "flying" and "singing"; the script prints that text.
C7_SparrowFliesAndSings ==
    /\ (result.op = "bird_info" /\ OnBird /\ Target.cls = "Sparrow"
          /\ Target.name = SparrowName) =>
          /\ result.exc = "None"
          /\ Contains(result.val, Flying)
          /\ Contains(result.val, Singing)
    /\ pc \in {"L280", "done", "crashed"} =>
          /\ Len(stdout) >= 1
          /\ Contains(stdout[1], Flying)
          /\ Contains(stdout[1], Singing)

C7_Witness ==
    /\ pc = "L280"
    /\ result.op = "bird_info"
    /\ result.target = 1
    /\ result.exc = "None"
    /\ stdout = <<result.val>>

\* C8: no step changes an existing entity: capability calls, bird_info and
\* make_move leave every attribute of every object as construction set it.
C8_EntitiesImmutable ==
    [][\A i \in 1..Len(heap) : i <= Len(heap') /\ heap'[i] = heap[i]]_vars

C8_Witness ==
    /\ result.op = "make_move"
    /\ result.exc = "None"
    /\ Len(heap) = 2
    /\ heap[1].name = SparrowName

\* C9: a run of the script ends normally, having printed exactly two lines:
\* the description of the sparrow, then the description of the penguin.
C9_ScriptPrintsTwoLines ==
    pc \in {"done", "crashed"} =>
        /\ pc = "done"
        /\ Len(stdout) = 2
        /\ stdout[1] = bird_info(heap[1]).val
        /\ stdout[2] = bird_info(heap[2]).val

\* C10: describe() of the polymorphic subclass for species s and describe() of
\* the conditional Bird built with (n, s) return the same text, for the three
\* known species; for any other species the conditional Bird returns
\* "<n> is an unknown bird.".
C10_PolymorphicEqualsConditional ==
    (result.op = "describe" /\ result.target \in 1..Len(heap)) =>
        /\ Target.cls \in BirdClasses("Ocp") =>
              /\ result.exc = "None"
              /\ result.val =
                    Invoke(OcpV_Bird___init__(Target.name, SpeciesOf(Target.cls)).obj,
                           "describe").val
        /\ (Target.cls = "OcpV.Bird" /\ Target.species \in {"sparrow", "penguin", "ostrich"}) =>
              \E cls \in BirdClasses("Ocp") :
                  /\ SpeciesOf(cls) = Target.species
                  /\ result.exc = "None"
                  /\ result.val = Invoke(Bird___init__(cls, Target.name).obj, "describe").val
        /\ (Target.cls = "OcpV.Bird" /\ Target.species \notin {"sparrow", "penguin", "ostrich"}) =>
              result.val = Target.name \o IsAnUnknownBird

C10_Witness ==
    /\ result.op = "describe"
    /\ result.target \in 1..Len(heap)
    /\ Target.cls = "OcpV.Bird"
    /\ Target.species = "ostrich"
    /\ Target.name = SparrowName
    /\ result.exc = "None"

====
